---- MODULE Spec2Model ----
(***************************************************************************)
(* Navigation-tree assembly of pulp-docs (src/pulp_docs/navigation.py)     *)
(* over a Repos collection (src/pulp_docs/repository.py) and a snapshot of *)
(* the aggregated documentation directory.                                 *)
(*                                                                         *)
(* Python values are modelled as tagged records:                           *)
(*   str   [t |-> "str",  s |-> "..."]                                     *)
(*   list  [t |-> "list", items |-> <<value, ...>>]                        *)
(*   dict  [t |-> "dict", items |-> <<[k |-> "...", v |-> value], ...>>]   *)
(*         (insertion ordered, as a Python dict)                           *)
(*   a raised exception [t |-> "error", kind |-> "..."]                    *)
(* Paths are strings relative to tmpdir.  The filesystem snapshot is a set *)
(* of such strings: a string ending in "/" is an empty directory, any      *)
(* other string a file; every proper prefix directory of a member exists.  *)
(***************************************************************************)
EXTENDS Integers, Sequences, FiniteSets, TLC

\* ------------------------------------------------------------------ bounds
MaxFiles == 3      \* entries of the populated directory (one-directory snapshots)
MaxContent == 1    \* length of the "content" list of the repolist
MaxOther == 1      \* length of the "other" list of the repolist

\* ------------------------------------------------------- python str helpers
\* the characters that occur in the paths of the model, in code-point order
Alphabet == "-./ABCDEFGHIJKLMNOPQRSTUVWXYZ_abcdefghijklmnopqrstuvwxyz{}"

CharAt(s, i) == SubSeq(s, i, i)

OrdTable ==
  [c \in {CharAt(Alphabet, i) : i \in 1..Len(Alphabet)} |->
      CHOOSE i \in 1..Len(Alphabet) : CharAt(Alphabet, i) = c]

Ord(c) == OrdTable[c]

\* str.lower() of one character
LowerChar(c) ==
  IF Ord(c) >= Ord("A") /\ Ord(c) <= Ord("Z")
    THEN CharAt(Alphabet, Ord("a") + (Ord(c) - Ord("A")))
    ELSE c

RECURSIVE Lower(_)
Lower(s) == IF s = "" THEN "" ELSE LowerChar(CharAt(s, 1)) \o Lower(Tail(s))

StartsWith(s, prefix) ==
  Len(s) >= Len(prefix) /\ SubSeq(s, 1, Len(prefix)) = prefix

EndsWith(s, suffix) ==
  Len(s) >= Len(suffix) /\ SubSeq(s, Len(s) - Len(suffix) + 1, Len(s)) = suffix

\* "needle in s"
Contains(s, needle) ==
  \E i \in 1..(Len(s) - Len(needle) + 1) : SubSeq(s, i, i + Len(needle) - 1) = needle

\* index of the first occurrence of the character c in s, 0 when absent
IndexOf(s, c) ==
  IF \E i \in 1..Len(s) : CharAt(s, i) = c
    THEN CHOOSE i \in 1..Len(s) : CharAt(s, i) = c /\ \A j \in 1..(i - 1) : CharAt(s, j) # c
    ELSE 0

\* index of the last occurrence of the character c in s, 0 when absent
LastIndexOf(s, c) ==
  IF \E i \in 1..Len(s) : CharAt(s, i) = c
    THEN CHOOSE i \in 1..Len(s) : CharAt(s, i) = c /\ \A j \in (i + 1)..Len(s) : CharAt(s, j) # c
    ELSE 0

\* path.split("/")[-1]
LastComponent(path) == SubSeq(path, LastIndexOf(path, "/") + 1, Len(path))

\* python's str < str : lexicographic by code point
RECURSIVE StrLess(_, _)
StrLess(a, b) ==
  IF b = "" THEN FALSE
  ELSE IF a = "" THEN TRUE
  ELSE IF CharAt(a, 1) = CharAt(b, 1) THEN StrLess(Tail(a), Tail(b))
  ELSE Ord(CharAt(a, 1)) < Ord(CharAt(b, 1))

\* variant: sorted(strings, key=str.lower)
RECURSIVE SortedIgnoreCase(_)
SortedIgnoreCase(S) ==
  IF S = {} THEN <<>>
  ELSE LET m == CHOOSE x \in S : \A y \in S \ {x} : ~StrLess(Lower(y), Lower(x))
       IN <<m>> \o SortedIgnoreCase(S \ {m})

\* sorted(strings) of a set of distinct strings
RECURSIVE Sorted(_)
Sorted(S) ==
  IF S = {} THEN <<>>
  ELSE LET m == CHOOSE x \in S : \A y \in S \ {x} : StrLess(x, y)
       IN <<m>> \o Sorted(S \ {m})

\* ------------------------------------------------------------ python values
Str(s) == [t |-> "str", s |-> s]
List(items) == [t |-> "list", items |-> items]
Dict(items) == [t |-> "dict", items |-> items]
Error(kind) == [t |-> "error", kind |-> kind]
IsError(v) == v.t = "error"

EmptyDict == Dict(<<>>)

Keys(d) == {d.items[i].k : i \in 1..Len(d.items)}
HasKey(d, k) == k \in Keys(d)
KeyIndex(d, k) == CHOOSE i \in 1..Len(d.items) : d.items[i].k = k
Get(d, k) == d.items[KeyIndex(d, k)].v

\* d[k] = v : replaces the value in place, or appends a new key
DictSet(d, k, v) ==
  IF HasKey(d, k)
    THEN Dict([d.items EXCEPT ![KeyIndex(d, k)] = [k |-> k, v |-> v]])
    ELSE Dict(Append(d.items, [k |-> k, v |-> v]))

StrList(paths) == List([i \in 1..Len(paths) |-> Str(paths[i])])
\* the strings of a list of str
Paths(l) == [i \in 1..Len(l.items) |-> l.items[i].s]

\* -------------------------------------------------------------- filesystem
\* pathlib: tmpdir / path, normalised (no empty components, no trailing "/")
RECURSIVE Normalize(_)
Normalize(path) ==
  IF path = "" THEN ""
  ELSE IF CharAt(path, 1) = "/" /\ (Len(path) = 1 \/ CharAt(path, 2) = "/")
    THEN Normalize(Tail(path))
  ELSE CharAt(path, 1) \o Normalize(Tail(path))

\* the directory exists in the snapshot
DirExists(snapshot, dir) == \E p \in snapshot : StartsWith(p, dir \o "/")

\* names of the immediate children (files and directories) of dir
ChildNames(snapshot, dir) ==
  LET under == {SubSeq(p, Len(dir) + 2, Len(p)) : p \in {q \in snapshot : StartsWith(q, dir \o "/")}}
      first(rest) == IF IndexOf(rest, "/") = 0 THEN rest
                     ELSE SubSeq(rest, 1, IndexOf(rest, "/") - 1)
  IN {first(rest) : rest \in under} \ {""}

\* fnmatch of a name against the pattern "*.md" (case-sensitive, as on POSIX)
GlobMatchMd(name) == EndsWith(name, ".md")

\* _path.glob("*.md") : the immediate children matching, in no order;
\* nothing at all for a directory that does not exist
Glob(snapshot, dir) ==
  {dir \o "/" \o n : n \in {m \in ChildNames(snapshot, dir) : GlobMatchMd(m)}}

\* variant: a lookup in a missing directory hands back the pattern itself
get_children_literal(snapshot, path) ==
  LET dir == Normalize(path)
      result == {file \in Glob(snapshot, dir) : ~StartsWith(LastComponent(file), "_")}
  IN IF DirExists(snapshot, dir) THEN StrList(Sorted(result))
     ELSE StrList(<<dir \o "/*.md">>)

\* variant: without the exclusion of the names that start with "_"
get_children_unfiltered(snapshot, path) ==
  StrList(Sorted(Glob(snapshot, Normalize(path))))

get_children(snapshot, path) ==
  LET dir == Normalize(path)
      result == {file \in Glob(snapshot, dir) : ~StartsWith(LastComponent(file), "_")}
  IN StrList(Sorted(result))

\* ------------------------------------------------------------ repository.py
None == [t |-> "none"]

\* Repo(title, name, type=...) : the fields the navigation reads
Repo(title, name, type) == [title |-> title, name |-> name, type |-> type]

\* the generated __init__ of the Repos dataclass: stores its three arguments
Repos(core_repo, content_repos, other_repos) ==
  [t |-> "Repos",
   core_repo |-> core_repo, content_repos |-> content_repos, other_repos |-> other_repos]

\* variant: the content repositories ahead of the primary
all_content_first(self) == self.content_repos \o <<self.core_repo>> \o self.other_repos

\* Repos.all
all(self) == <<self.core_repo>> \o self.content_repos \o self.other_repos

\* Repos.from_yaml on the parsed "repos" mapping of the repolist file:
\* [core |-> <<entry...>>, content |-> <<entry...>>, other |-> <<entry...>>],
\* an entry being [title |-> ..., name |-> ...]
from_yaml(repos) ==
  IF Len(repos.core) = 0 THEN Error("IndexError")
  ELSE Repos(Repo(repos.core[1].title, repos.core[1].name, "core"),
             [i \in 1..Len(repos.content) |->
                 Repo(repos.content[i].title, repos.content[i].name, "content")],
             [i \in 1..Len(repos.other) |->
                 Repo(repos.other[i].title, repos.other[i].name, "other")])

\* getattr(self.repos, attr), for the list-valued attributes
GetAttr(self, attr) ==
  IF attr \in DOMAIN self \ {"t"} THEN [t |-> "list", items |-> self[attr]]
  ELSE Error("AttributeError")

\* ------------------------------------------------------------ navigation.py
ADMIN_NAME == "admin"
USER_NAME == "user"

DISPLAY_NAMES ==
  [guides |-> "How-to", learn |-> "Learn", tutorials |-> "Tutorials", reference |-> "Reference"]

\* template_str.format(**bindings) : every "{field}" replaced by its binding,
\* KeyError for a field without one
RECURSIVE Format(_, _)
Format(template, bindings) ==
  LET open == IndexOf(template, "{") IN
  IF open = 0 THEN Str(template)
  ELSE LET after == SubSeq(template, open + 1, Len(template))
           close == IndexOf(after, "}")
           field == SubSeq(after, 1, close - 1)
           rest == Format(SubSeq(after, close + 1, Len(after)), bindings)
       IN IF close = 0 THEN Error("ValueError")
          ELSE IF field \notin DOMAIN bindings THEN Error("KeyError")
          ELSE IF IsError(rest) THEN rest
          ELSE Str(SubSeq(template, 1, open - 1) \o bindings[field] \o rest.s)

\* AgregationUtils._pop_quickstart_from : the returned path (None when no
\* file matches) and the list as the in-place remove leaves it
RECURSIVE FirstQuickstart(_, _)
FirstQuickstart(pathlist, i) ==
  IF i > Len(pathlist) THEN 0
  ELSE IF Lower(LastComponent(pathlist[i])) \in {"quickstart.md", "quick-start.md"} THEN i
  ELSE FirstQuickstart(pathlist, i + 1)

\* variant: the match is returned but not removed from the list
pop_quickstart_from_keep(pathlist) ==
  LET i == FirstQuickstart(pathlist, 1) IN
  IF i = 0 THEN [path |-> None, pathlist |-> pathlist]
  ELSE [path |-> Str(pathlist[i]), pathlist |-> pathlist]

pop_quickstart_from(pathlist) ==
  LET i == FirstQuickstart(pathlist, 1) IN
  IF i = 0 THEN [path |-> None, pathlist |-> pathlist]
  ELSE [path |-> Str(pathlist[i]),
        pathlist |-> SubSeq(pathlist, 1, i - 1) \o SubSeq(pathlist, i + 1, Len(pathlist))]

\* the selection of repositories at the head of repo_grouping
RECURSIVE ExtendSelected(_, _, _, _)
ExtendSelected(self, repo_types, i, selected) ==
  IF i > Len(repo_types) THEN [t |-> "list", items |-> selected]
  ELSE LET attr == GetAttr(self, repo_types[i] \o "_repos") IN
       IF IsError(attr) THEN attr
       ELSE ExtendSelected(self, repo_types, i + 1, selected \o attr.items)

selected_repos(self, repo_types) ==
  IF repo_types.t = "none" \/ Len(repo_types.items) = 0
    THEN [t |-> "list", items |-> all(self)]
    ELSE ExtendSelected(self, repo_types.items, 1, <<>>)

\* variant: no default for a call without content types
selected_content_nodefault(content_types) ==
  IF content_types.t = "none" THEN <<>> ELSE content_types.items

selected_content(content_types) ==
  IF content_types.t = "none" \/ Len(content_types.items) = 0
    THEN <<"tutorials", "guides", "learn">>
    ELSE content_types.items

\* repo_grouping, "Dont expand content-types" branch
RECURSIVE GroupSimple(_, _, _, _, _)
GroupSimple(snapshot, template_str, selected, i, nav) ==
  IF i > Len(selected) THEN nav
  ELSE LET repo == selected[i]
           lookup_path == Format(template_str,
                                 [repo |-> repo.name, admin |-> ADMIN_NAME, user |-> USER_NAME])
           repo_content == get_children(snapshot, lookup_path.s)
       IN IF IsError(lookup_path) THEN lookup_path
          ELSE GroupSimple(snapshot, template_str, selected, i + 1,
                           IF Len(repo_content.items) > 0
                             THEN DictSet(nav, repo.title, repo_content)
                             ELSE nav)

\* repo_grouping, "Expand content-types" branch: the inner loop over the
\* content types of one repository, entry being _nav[repo.title]
RECURSIVE GroupContent(_, _, _, _, _, _)
GroupContent(snapshot, template_str, repo, content, j, entry) ==
  IF j > Len(content) THEN entry
  ELSE LET content_type == content[j]
           lookup_path == Format(template_str,
                                 [repo |-> repo.name, admin |-> ADMIN_NAME,
                                  user |-> USER_NAME, content |-> content_type])
           popped == pop_quickstart_from(Paths(get_children(snapshot, lookup_path.s)))
           quickstart_file == popped.path
           repo_content == popped.pathlist
           entry1 == IF Lower(content_type) = "tutorials" /\ quickstart_file.t # "none"
                       THEN DictSet(entry, "Quickstart", quickstart_file)
                       ELSE entry
       IN IF IsError(lookup_path) THEN lookup_path
          ELSE IF Len(repo_content) = 0
            THEN GroupContent(snapshot, template_str, repo, content, j + 1, entry1)
          ELSE IF content_type \notin DOMAIN DISPLAY_NAMES THEN Error("KeyError")
          ELSE GroupContent(snapshot, template_str, repo, content, j + 1,
                            DictSet(entry1, DISPLAY_NAMES[content_type], StrList(repo_content)))

RECURSIVE GroupExpand(_, _, _, _, _, _)
GroupExpand(snapshot, template_str, selected, content, i, nav) ==
  IF i > Len(selected) THEN nav
  ELSE LET repo == selected[i]
           entry == GroupContent(snapshot, template_str, repo, content, 1, EmptyDict)
       IN IF IsError(entry) THEN entry
          ELSE GroupExpand(snapshot, template_str, selected, content, i + 1,
                           DictSet(nav, repo.title, entry))

\* AgregationUtils.repo_grouping(template_str, repo_types, content_types);
\* repo_types and content_types are None or a list of plain strings
repo_grouping(self, snapshot, template_str, repo_types, content_types) ==
  LET expand_content_types == Contains(template_str, "{content}")
      selected == selected_repos(self, repo_types)
  IN IF IsError(selected) THEN selected
     ELSE IF ~expand_content_types
       THEN GroupSimple(snapshot, template_str, selected.items, 1, EmptyDict)
     ELSE GroupExpand(snapshot, template_str, selected.items,
                      selected_content(content_types), 1, EmptyDict)

\* variant: the sections in the order of the docstring (Readme first)
reference_section_readme_first(snapshot, repo) ==
  List(<<Dict(<<[k |-> "Readme", v |-> Str(repo.name \o "/README.md")]>>),
         Dict(<<[k |-> "REST API", v |-> Str(repo.name \o "/docs/rest_api.md")]>>),
         Dict(<<[k |-> "Code API",
                 v |-> get_children(snapshot,
                                    Format("{repo}/docs/reference", [repo |-> repo.name]).s)]>>),
         Dict(<<[k |-> "Changelog", v |-> Str(repo.name \o "/CHANGELOG.md")]>>)>>)

\* one iteration of repo_reference_grouping: the four sections of a repo
reference_section(snapshot, repo) ==
  List(<<Dict(<<[k |-> "REST API", v |-> Str(repo.name \o "/docs/rest_api.md")]>>),
         Dict(<<[k |-> "Readme", v |-> Str(repo.name \o "/README.md")]>>),
         Dict(<<[k |-> "Code API",
                 v |-> get_children(snapshot,
                                    Format("{repo}/docs/reference", [repo |-> repo.name]).s)]>>),
         Dict(<<[k |-> "Changelog", v |-> Str(repo.name \o "/CHANGELOG.md")]>>)>>)

RECURSIVE GroupReference(_, _, _, _)
GroupReference(snapshot, repos, i, nav) ==
  IF i > Len(repos) THEN nav
  ELSE GroupReference(snapshot, repos, i + 1,
                      DictSet(nav, repos[i].title, reference_section(snapshot, repos[i])))

repo_reference_grouping(self, snapshot) == GroupReference(snapshot, all(self), 1, EmptyDict)

section_file(section_and_filename) ==
  Str("pulpcore/docs/sections" \o "/" \o section_and_filename)

section_children(snapshot, section_name) ==
  get_children(snapshot, "pulpcore/docs/sections" \o "/" \o section_name)

\* {title: value}
Entry(title, value) == Dict(<<[k |-> title, v |-> value]>>)

\* the "Getting Started" mapping of one persona
getting_started(snapshot, persona) ==
  Dict(<<[k |-> "Tutorial", v |-> get_children(snapshot, "pulpcore/docs/" \o persona \o "/tutorials")],
         [k |-> "Learn", v |-> get_children(snapshot, "pulpcore/docs/" \o persona \o "/learn")],
         [k |-> "How-to", v |-> get_children(snapshot, "pulpcore/docs/" \o persona \o "/guides")]>>)

\* variant: "Plugins" over the other repositories, "Extras" over the content ones
persona_section_swapped(self, snapshot, overview, persona) ==
  List(<<Entry("Overview", section_file(overview)),
         Entry("Getting Started", getting_started(snapshot, persona)),
         Entry("Plugins", repo_grouping(self, snapshot, "{repo}/docs/" \o persona \o "/{content}",
                                        List(<<"other">>), None)),
         Entry("Extras", repo_grouping(self, snapshot, "{repo}/docs/" \o persona \o "/{content}",
                                       List(<<"content">>), None))>>)

\* usage_section, admin_section and development_section of grouped_by_persona
persona_section(self, snapshot, overview, persona) ==
  List(<<Entry("Overview", section_file(overview)),
         Entry("Getting Started", getting_started(snapshot, persona)),
         Entry("Plugins", repo_grouping(self, snapshot, "{repo}/docs/" \o persona \o "/{content}",
                                        List(<<"content">>), None)),
         Entry("Extras", repo_grouping(self, snapshot, "{repo}/docs/" \o persona \o "/{content}",
                                       List(<<"other">>), None))>>)

grouped_by_persona(self, snapshot) ==
  LET help_section ==
        List(<<Entry("Overview", section_file("help/index.md")),
               Entry("Bugs, Feature and Backport Requests", section_file("help/bugs-features.md"))>>)
      usage_section == persona_section(self, snapshot, "usage/index.md", "user")
      admin_section == persona_section(self, snapshot, "admin/index.md", "admin")
      reference_section_ ==
        List(<<Entry("Overview", section_file("reference/index.md")),
               Entry("Repository Map", section_file("reference/01-repository-map.md")),
               Entry("Glossary", section_file("reference/02-glossary.md")),
               Entry("Repositories", repo_reference_grouping(self, snapshot))>>)
      development_section == persona_section(self, snapshot, "development/index.md", "dev")
  IN List(<<Entry("Home", Str("index.md")),
            Entry("User Manual", usage_section),
            Entry("Admin Manual", admin_section),
            Entry("Development", development_section),
            Entry("Reference", reference_section_),
            Entry("Help", help_section)>>)

get_navigation(snapshot, self) == grouped_by_persona(self, snapshot)

\* ------------------------------------------------------------------ inputs
SeqsUpTo(S, n) == UNION {[1..k -> S] : k \in 0..n}

\* repolist entries: two share a title, an entry used twice shares its name
RepoEntries ==
  {[title |-> "Pulp Core", name |-> "pulpcore"],
   [title |-> "Pulp Core", name |-> "core"],
   [title |-> "Rpm", name |-> "pulp_rpm"]}

\* every repolist file within the bounds ("core" holds at most one entry)
Repolists ==
  [core : SeqsUpTo(RepoEntries, 1),
   content : SeqsUpTo(RepoEntries, MaxContent),
   other : SeqsUpTo(RepoEntries, MaxOther)]

RepolistOf(core, content, other) == [core |-> core, content |-> content, other |-> other]

\* the repolists the one-directory snapshots are combined with
FewRepolists ==
  {RepolistOf(<<[title |-> "Pulp Core", name |-> "pulpcore"]>>,
              <<[title |-> "Rpm", name |-> "pulp_rpm"]>>, <<>>),
   RepolistOf(<<[title |-> "Pulp Core", name |-> "core"]>>,
              <<>>, <<[title |-> "Rpm", name |-> "pulp_rpm"]>>),
   RepolistOf(<<[title |-> "Rpm", name |-> "pulp_rpm"]>>,
              <<[title |-> "Pulp Core", name |-> "pulpcore"]>>,
              <<[title |-> "Pulp Core", name |-> "core"]>>)}

\* snapshots with files in several directories
TreeSnapshots ==
  {{},
   {"pulpcore/docs/user/tutorials/quickstart.md", "pulpcore/docs/user/tutorials/a.md",
    "core/docs/user/tutorials/quickstart.md",
    "pulp_rpm/docs/user/tutorials/intro.md", "pulp_rpm/docs/user/tutorials/Quick-Start.md",
    "pulp_rpm/docs/user/tutorials/advanced.md", "pulp_rpm/docs/user/guides/x.md"},
   {"pulp_rpm/docs/admin/guides/_draft.md", "pulp_rpm/docs/admin/learn/",
    "core/docs/admin/learn/b.md", "pulpcore/docs/admin/learn/a.md",
    "pulpcore/docs/dev/tutorials/_wip.md", "pulpcore/docs/dev/tutorials/done.md",
    "core/docs/dev/tutorials/_wip.md",
    "core/docs/reference/_index.md", "core/docs/reference/b.md", "core/docs/reference/a.md",
    "pulpcore/docs/reference/api.md"},
   {"pulp_rpm/docs/dev/guides/quickstart.md", "pulp_rpm/docs/dev/guides/a.md",
    "pulp_rpm/docs/dev/tutorials/Quick-Start.md", "pulp_rpm/docs/dev/tutorials/quickstart.md",
    "core/docs/dev/learn/quick-start.md", "pulpcore/docs/dev/guides/b.md",
    "core/docs/user/learn/quick-start.md",
    "pulp_rpm/docs/user/guides/quickstart.md", "pulp_rpm/docs/user/guides/a.md",
    "pulpcore/docs/sections/development/guides/b.md",
    "pulpcore/docs/sections/development/guides/a.md",
    "pulpcore/docs/sections/development/quickstart/_part.md"}}

\* the directories a one-directory snapshot populates
PopulatedDirs ==
  {"pulpcore/docs/user/tutorials", "pulp_rpm/docs/user/tutorials", "pulp_rpm/docs/dev/guides",
   "core/docs/admin/learn", "pulp_rpm/docs/reference"}

\* what a populated directory may hold
EntryNames ==
  {"a.md", "B.md", "quickstart.md", "Quick-Start.md", "_draft.md", "QuickStart.MD", "sub/deep.md"}

DirSnapshots ==
  {{dir \o "/" \o n : n \in names} :
      dir \in PopulatedDirs,
      names \in {N \in SUBSET EntryNames : Cardinality(N) >= 1 /\ Cardinality(N) <= MaxFiles}}

\* arguments of the calls
ChildrenPaths ==
  PopulatedDirs \cup {"pulp_rpm/docs/user/tutorials/", "pulp_rpm/docs/admin/learn",
                      "core/docs/reference"}

Templates == {"{repo}/docs/user/{content}", "{repo}/docs/{admin}/learn", "{repo}/docs/dev/guides"}

RepoTypes ==
  {None, List(<<"content">>), List(<<"other">>), List(<<"other", "content">>), List(<<"core">>)}

ContentTypes == {None, List(<<"guides">>), List(<<"learn", "tutorials">>)}

SectionNames == {"/development/guides/", "development/quickstart/"}

SectionFiles == {"help/index.md"}

\* ------------------------------------------------------------ state machine
\* repolist: the parsed repolist file
\* fs:       the snapshot of tmpdir
\* repos:    the Repos handed to the navigation, None before construction
\* pc:       "start", "ready" (Repos constructed), "failed", "done"
\* call:     the last call and its arguments
\* result:   what the last call returned or raised
VARIABLES repolist, fs, repos, pc, call, result

vars == <<repolist, fs, repos, pc, call, result>>

Init ==
  /\ \/ repolist \in Repolists /\ fs \in TreeSnapshots
     \/ repolist \in FewRepolists /\ fs \in DirSnapshots
  /\ repos = None
  /\ pc = "start"
  /\ call = [name |-> "none"]
  /\ result = None

\* Repos.from_yaml(path)
FromYaml ==
  /\ pc = "start"
  /\ LET r == from_yaml(repolist) IN
       /\ call' = [name |-> "from_yaml"]
       /\ result' = r
       /\ repos' = IF IsError(r) THEN None ELSE r
       /\ pc' = IF IsError(r) THEN "failed" ELSE "ready"
  /\ UNCHANGED <<repolist, fs>>

Returns(c, r) ==
  /\ call' = c
  /\ result' = r
  /\ pc' = "done"
  /\ UNCHANGED <<repolist, fs, repos>>

\* AgregationUtils(tmpdir, repos).get_children(path)
GetChildren ==
  /\ pc = "ready"
  /\ \E path \in ChildrenPaths :
       Returns([name |-> "get_children", path |-> path], get_children(fs, path))

\* AgregationUtils(tmpdir, repos).repo_grouping(template_str, repo_types, content_types)
RepoGrouping ==
  /\ pc = "ready"
  /\ \E template_str \in Templates, repo_types \in RepoTypes, content_types \in ContentTypes :
       Returns([name |-> "repo_grouping", template_str |-> template_str,
                repo_types |-> repo_types, content_types |-> content_types],
               repo_grouping(repos, fs, template_str, repo_types, content_types))

\* AgregationUtils(tmpdir, repos).repo_reference_grouping()
RepoReferenceGrouping ==
  /\ pc = "ready"
  /\ Returns([name |-> "repo_reference_grouping"], repo_reference_grouping(repos, fs))

\* AgregationUtils(tmpdir, repos).section_file(section_and_filename)
SectionFile ==
  /\ pc = "ready"
  /\ \E f \in SectionFiles :
       Returns([name |-> "section_file", section_and_filename |-> f], section_file(f))

\* AgregationUtils(tmpdir, repos).section_children(section_name)
SectionChildren ==
  /\ pc = "ready"
  /\ \E section_name \in SectionNames :
       Returns([name |-> "section_children", section_name |-> section_name],
               section_children(fs, section_name))

\* get_navigation(tmpdir, repos)
GetNavigation ==
  /\ pc = "ready"
  /\ Returns([name |-> "get_navigation"], get_navigation(fs, repos))

Next ==
  \/ FromYaml
  \/ GetChildren
  \/ RepoGrouping
  \/ RepoReferenceGrouping
  \/ SectionFile
  \/ SectionChildren
  \/ GetNavigation

Spec == Init /\ [][Next]_vars

\* -------------------------------------------------- vocabulary of the claims
\* the files a directory offers to discovery, stated on the snapshot itself:
\* immediate children named *.md whose name does not begin with "_"
Discoverable(snapshot, dir) ==
  LET under == {q \in snapshot : StartsWith(q, dir \o "/")}
      prefixes == UNION {{SubSeq(q, 1, n) : n \in (Len(dir) + 2)..Len(q)} : q \in under}
  IN {p \in prefixes :
        /\ \E q \in under : q = p \/ StartsWith(q, p \o "/")
        /\ ~Contains(SubSeq(p, Len(dir) + 2, Len(p)), "/")
        /\ EndsWith(p, ".md")
        /\ CharAt(p, Len(dir) + 2) # "_"}

IsQuickstartName(name) == Lower(name) \in {"quickstart.md", "quick-start.md"}

Expanding(c) == c.name = "repo_grouping" /\ Contains(c.template_str, "{content}")

\* a call of repo_grouping with a "{content}" template has returned a mapping
ExpandedDone == pc = "done" /\ Expanding(call) /\ result.t = "dict"

\* the repositories and content types the finished call iterated over
CallRepos == selected_repos(repos, call.repo_types).items
CallContent == selected_content(call.content_types)

\* the directory the call looked up for a repository and a content type
CallDir(repo, content_type) ==
  Format(call.template_str, [repo |-> repo.name, admin |-> "admin", user |-> "user",
                             content |-> content_type]).s

TitleUniqueAt(rs, i) == \A j \in 1..Len(rs) : j # i => rs[j].title # rs[i].title

\* the list under a key of an entry, the empty list when the key is absent
ListUnder(entry, key) == IF HasKey(entry, key) THEN Paths(Get(entry, key)) ELSE <<>>

RECURSIVE Without(_, _)
Without(seq, x) ==
  IF seq = <<>> THEN <<>>
  ELSE IF Head(seq) = x THEN Without(Tail(seq), x)
  ELSE <<Head(seq)>> \o Without(Tail(seq), x)

\* ---------------------------------------------------------------- claim C1
\* C1: in content-type-expanding repo_grouping, a selected repository for
\* which every requested content-type directory yields no discovered file is
\* absent from the result: its title is not a key.  (Stated for a repository
\* whose title no other selected repository carries.)
C1_EmptyRepoAbsent ==
  ExpandedDone =>
    \A i \in 1..Len(CallRepos) :
      (/\ TitleUniqueAt(CallRepos, i)
       /\ \A j \in 1..Len(CallContent) :
            Discoverable(fs, CallDir(CallRepos[i], CallContent[j])) = {})
      => ~HasKey(result, CallRepos[i].title)

\* ---------------------------------------------------------------- claim C2
\* the quickstart property for the i-th selected repository
QuickstartExtracted(i) ==
  LET repo == CallRepos[i]
      discovered == Paths(get_children(fs, CallDir(repo, "tutorials")))
  IN (\E k \in 1..Len(discovered) : IsQuickstartName(LastComponent(discovered[k])))
     => /\ HasKey(result, repo.title)
        /\ HasKey(Get(result, repo.title), "Quickstart")
        /\ LET entry == Get(result, repo.title)
               q == Get(entry, "Quickstart").s
           IN /\ \E k \in 1..Len(discovered) : discovered[k] = q
              /\ IsQuickstartName(LastComponent(q))
              /\ ListUnder(entry, "Tutorials") = Without(discovered, q)

TutorialsRequested == \E j \in 1..Len(CallContent) : CallContent[j] = "tutorials"

\* C2 as stated: whenever the discovered tutorials of a selected repository
\* contain a quickstart file, it is under the repository's "Quickstart" key
\* and "Tutorials" holds exactly the other discovered files, in order.
C2_Original ==
  (ExpandedDone /\ TutorialsRequested) =>
    \A i \in 1..Len(CallRepos) : QuickstartExtracted(i)

\* C2 amended: the same, for a selected repository whose title no other
\* selected repository carries (a later repository of the same title
\* replaces the entry).
C2_QuickstartExtraction ==
  (ExpandedDone /\ TutorialsRequested) =>
    \A i \in 1..Len(CallRepos) : TitleUniqueAt(CallRepos, i) => QuickstartExtracted(i)

C2_Witness ==
  /\ ExpandedDone /\ TutorialsRequested
  /\ \E i \in 1..Len(CallRepos) :
       /\ TitleUniqueAt(CallRepos, i)
       /\ HasKey(result, CallRepos[i].title)
       /\ HasKey(Get(result, CallRepos[i].title), "Quickstart")
       /\ Get(Get(result, CallRepos[i].title), "Quickstart").s
            = CallDir(CallRepos[i], "tutorials") \o "/Quick-Start.md"
       /\ Len(ListUnder(Get(result, CallRepos[i].title), "Tutorials")) = 2

\* ---------------------------------------------------------------- claim C3
\* the children of a list or mapping node
Children(node) ==
  IF node.t = "dict" THEN [i \in 1..Len(node.items) |-> node.items[i].v] ELSE node.items

\* no list or mapping at or below the node is empty
RECURSIVE NoEmptyBranch(_)
NoEmptyBranch(node) ==
  \/ node.t = "str"
  \/ /\ node.t \in {"list", "dict"}
     /\ Len(node.items) > 0
     /\ \A i \in 1..Len(node.items) : NoEmptyBranch(Children(node)[i])

\* C3: the tree returned by get_navigation contains no empty branch: no
\* titled node maps to an empty sequence or empty mapping.
C3_NoEmptyBranch ==
  (pc = "done" /\ call.name = "get_navigation") => NoEmptyBranch(result)

\* ---------------------------------------------------------------- claim C4
\* the four sections the claim describes for a repository
FourSections(repo) ==
  List(<<Entry("REST API", Str(repo.name \o "/docs/rest_api.md")),
         Entry("Readme", Str(repo.name \o "/README.md")),
         Entry("Code API", StrList(Sorted(Discoverable(fs, repo.name \o "/docs/reference")))),
         Entry("Changelog", Str(repo.name \o "/CHANGELOG.md"))>>)

EveryRepoHasFourSections ==
  \A i \in 1..Len(all(repos)) :
    /\ HasKey(result, all(repos)[i].title)
    /\ Get(result, all(repos)[i].title) = FourSections(all(repos)[i])

NamesUnique(rs) == \A i, j \in 1..Len(rs) : i # j => rs[i].name # rs[j].name
TitlesUnique(rs) == \A i, j \in 1..Len(rs) : i # j => rs[i].title # rs[j].title

ReferenceDone == pc = "done" /\ call.name = "repo_reference_grouping"

NamesCore(repo_types) ==
  repo_types.t = "list" /\ \E i \in 1..Len(repo_types.items) : repo_types.items[i] = "core"

\* C5: get_children on a directory that does not exist returns the empty
\* sequence and raises nothing, and section_children, repo_reference_grouping
\* and repo_grouping (over the content and other repositories or the full
\* listing) complete without error whatever directories are missing.
C5_MissingDirectory ==
  pc = "done" =>
    /\ (call.name = "get_children" /\ ~DirExists(fs, Normalize(call.path)))
         => result = List(<<>>)
    /\ call.name \in {"section_children", "repo_reference_grouping"} => ~IsError(result)
    /\ (call.name = "repo_grouping" /\ ~NamesCore(call.repo_types)) => ~IsError(result)

C5_Witness ==
  /\ pc = "done" /\ call.name = "get_children"
  /\ ~DirExists(fs, Normalize(call.path))
  /\ fs # {}
  /\ result = List(<<>>)

\* ---------------------------------------------------------------- claim C6
\* C6: for an existing directory get_children returns exactly the immediate
\* children named *.md that do not begin with "_", as paths relative to the
\* documentation root, each once, in ascending code-point order; nothing
\* from a subdirectory.
C6_ChildrenSorted ==
  (pc = "done" /\ call.name = "get_children" /\ DirExists(fs, Normalize(call.path))) =>
    LET r == Paths(result) IN
      /\ {r[i] : i \in 1..Len(r)} = Discoverable(fs, Normalize(call.path))
      /\ Len(r) = Cardinality(Discoverable(fs, Normalize(call.path)))
      /\ \A i \in 1..(Len(r) - 1) : StrLess(r[i], r[i + 1])

C6_Witness ==
  /\ pc = "done" /\ call.name = "get_children"
  /\ fs = {call.path \o "/" \o n : n \in {"a.md", "B.md", "sub/deep.md"}}
  /\ Paths(result) = <<call.path \o "/B.md", call.path \o "/a.md">>

\* ---------------------------------------------------------------- claim C7
\* the paths at the leaves of a returned value
RECURSIVE Leaves(_)
Leaves(node) ==
  IF node.t = "str" THEN {node.s}
  ELSE IF node.t \in {"list", "dict"}
    THEN UNION {Leaves(Children(node)[i]) : i \in 1..Len(node.items)}
  ELSE {}

\* C7: no path whose file name begins with "_" is a leaf of anything
\* get_children, repo_grouping, repo_reference_grouping, section_children
\* or get_navigation return.
C7_NoPrivateFile ==
  pc = "done" => \A p \in Leaves(result) : ~StartsWith(LastComponent(p), "_")

C7_Witness ==
  /\ pc = "done" /\ call.name = "get_navigation"
  /\ "pulpcore/docs/dev/tutorials/_wip.md" \in fs
  /\ "pulpcore/docs/dev/tutorials/done.md" \in Leaves(result)

\* ---------------------------------------------------------------- claim C8
ContentSupplied(c) == c.content_types.t = "list" /\ Len(c.content_types.items) > 0

Mismatch(c) ==
  /\ c.name = "repo_grouping"
  /\ \/ Contains(c.template_str, "{content}") /\ ~ContentSupplied(c)
     \/ ~Contains(c.template_str, "{content}") /\ ContentSupplied(c)

\* C8 as stated: repo_grouping fails in both mismatch cases, "{content}" in
\* the template without content types and content types without "{content}".
C8_Original == (pc = "done" /\ Mismatch(call)) => IsError(result)

\* C8 amended: neither mismatch makes repo_grouping fail.  A "{content}"
\* template without content types is grouped over tutorials, guides, learn,
\* as if those had been passed; content types passed with a template that
\* has no "{content}" are ignored.  Over the content and other repositories
\* or the full listing the call returns a mapping.
C8_MismatchTolerated ==
  (pc = "done" /\ Mismatch(call)) =>
    /\ ~NamesCore(call.repo_types) => result.t = "dict"
    /\ Contains(call.template_str, "{content}") =>
         result = repo_grouping(repos, fs, call.template_str, call.repo_types,
                                List(<<"tutorials", "guides", "learn">>))
    /\ ~Contains(call.template_str, "{content}") =>
         result = repo_grouping(repos, fs, call.template_str, call.repo_types, None)

C8_Witness ==
  /\ pc = "done" /\ Mismatch(call)
  /\ Contains(call.template_str, "{content}")
  /\ result.t = "dict" /\ Len(result.items) = 1
  /\ Keys(result.items[1].v) = {"Quickstart", "Tutorials", "How-to"}

\* ---------------------------------------------------------------- claim C9
\* the entries of a repolist: the primary and the content and other lists
RepolistEntries(r) == r.core \o r.content \o r.other

\* C9: constructing the Repos fails when two entries of the repolist share a
\* name or when no primary entry is supplied.
C9_ConstructionFails ==
  (call.name = "from_yaml"
     /\ (Len(repolist.core) = 0 \/ ~NamesUnique(RepolistEntries(repolist))))
  => IsError(result)

\* --------------------------------------------------------------- claim C10
\* the "Getting Started" mapping of the k-th top-level branch of the tree
GettingStartedOf(nav, k) == nav.items[k].items[1].v.items[2].items[1].v

PersonaAt(k) == <<"", "user", "admin", "dev">>[k]

PrimaryListing(persona, content_type) ==
  Sorted(Discoverable(fs, repos.core_repo.name \o "/docs/" \o persona \o "/" \o content_type))

\* C10: for each persona the Getting Started children Tutorial, Learn and
\* How-to are the complete discovered listings of the primary repository's
\* tutorials, learn and guides directories of that persona, whatever the
\* primary repository is named, with no quickstart extraction.
C10_GettingStartedFromPrimary ==
  (pc = "done" /\ call.name = "get_navigation") =>
    \A k \in 2..4 :
      /\ Paths(Get(GettingStartedOf(result, k), "Tutorial")) = PrimaryListing(PersonaAt(k), "tutorials")
      /\ Paths(Get(GettingStartedOf(result, k), "Learn")) = PrimaryListing(PersonaAt(k), "learn")
      /\ Paths(Get(GettingStartedOf(result, k), "How-to")) = PrimaryListing(PersonaAt(k), "guides")

\* --------------------------------------------------------------- claim C11
\* the titles of a sequence of single-title nodes
TitlesOf(node) == [i \in 1..Len(node.items) |-> node.items[i].items[1].k]

\* the k-th top-level branch of the tree, and the value under its n-th title
BranchOf(nav, k) == nav.items[k].items[1].v
ChildOf(section, n) == section.items[n].items[1].v

\* a repository has a discoverable file for the persona
HasFilesFor(repo, persona) ==
  \E content_type \in {"tutorials", "guides", "learn"} :
    Discoverable(fs, repo.name \o "/docs/" \o persona \o "/" \o content_type) # {}

\* the grouping holds the repositories rs and nothing else
BuiltFrom(group, rs, persona) ==
  /\ group.t = "dict"
  /\ Keys(group) \subseteq {rs[i].title : i \in 1..Len(rs)}
  /\ \A p \in Leaves(group) :
       \E i \in 1..Len(rs) : StartsWith(p, rs[i].name \o "/docs/" \o persona \o "/")
  /\ \A i \in 1..Len(rs) : HasFilesFor(rs[i], persona) => HasKey(group, rs[i].title)

\* C11: get_navigation returns the top-level titles Home, User Manual, Admin
\* Manual, Development, Reference, Help in this order; each persona branch
\* has the children Overview, Getting Started, Plugins, Extras in this
\* order, Plugins built from the content repositories only and Extras from
\* the other repositories only.
C11_TreeShape ==
  (pc = "done" /\ call.name = "get_navigation") =>
    /\ TitlesOf(result)
         = <<"Home", "User Manual", "Admin Manual", "Development", "Reference", "Help">>
    /\ \A k \in 2..4 :
         /\ TitlesOf(BranchOf(result, k)) = <<"Overview", "Getting Started", "Plugins", "Extras">>
         /\ BuiltFrom(ChildOf(BranchOf(result, k), 3), repos.content_repos, PersonaAt(k))
         /\ BuiltFrom(ChildOf(BranchOf(result, k), 4), repos.other_repos, PersonaAt(k))

C11_Witness ==
  /\ pc = "done" /\ call.name = "get_navigation"
  /\ Len(repos.content_repos) = 1 /\ Len(repos.other_repos) = 1
  /\ repos.content_repos[1].name # repos.other_repos[1].name
  /\ Leaves(ChildOf(BranchOf(result, 2), 3)) # {}
  /\ Leaves(ChildOf(BranchOf(result, 2), 4)) # {}

\* --------------------------------------------------------------- claim C13
\* the repositories of a category named in repo_types
CategoryRepos(category) ==
  IF category = "core" THEN <<repos.core_repo>>
  ELSE IF category = "content" THEN repos.content_repos
  ELSE repos.other_repos

RECURSIVE CategoriesListing(_)
CategoriesListing(categories) ==
  IF categories = <<>> THEN <<>>
  ELSE CategoryRepos(Head(categories)) \o CategoriesListing(Tail(categories))

\* the listing the claims describe for a repo filter: the named categories
\* in the order listed, the full listing [primary] + content + other
\* without a filter
ClaimListing(repo_types) ==
  IF repo_types.t = "none" \/ Len(repo_types.items) = 0
    THEN <<repos.core_repo>> \o repos.content_repos \o repos.other_repos
    ELSE CategoriesListing(repo_types.items)

TitlesIn(rs) == {rs[i].title : i \in 1..Len(rs)}

\* C13: repo_grouping accepts in repo_types any combination of "core",
\* "content" and "other": it completes without error and groups over the
\* repositories of the named categories, "core" selecting the primary.
C13_RepoTypesAccepted ==
  (pc = "done" /\ call.name = "repo_grouping" /\ call.repo_types.t = "list") =>
    /\ ~IsError(result)
    /\ Keys(result) \subseteq TitlesIn(ClaimListing(call.repo_types))

\* --------------------------------------------------------------- claim C14
\* a call of repo_grouping with a template without "{content}" has returned
SimpleDone ==
  /\ pc = "done" /\ call.name = "repo_grouping"
  /\ ~Contains(call.template_str, "{content}")
  /\ result.t = "dict"

\* what discovery finds for a repository in the directory of a simple call
SimpleListing(repo) == Sorted(Discoverable(fs, CallDir(repo, "")))

\* the entries the claim describes: the repositories of the listing with a
\* non-empty discovered list, in the order of the listing
RECURSIVE NonEmptyEntries(_)
NonEmptyEntries(rs) ==
  IF rs = <<>> THEN <<>>
  ELSE IF SimpleListing(Head(rs)) = <<>> THEN NonEmptyEntries(Tail(rs))
  ELSE <<[k |-> Head(rs).title, v |-> StrList(SimpleListing(Head(rs)))]>>
         \o NonEmptyEntries(Tail(rs))

\* C14: simple grouping over a RepositorySet with unique titles returns, in
\* the order of the selected listing, exactly the titles of the selected
\* repositories whose directory yields a non-empty discovered list, each
\* mapped to that list; without a repo filter the listing is
\* [primary] + content + other.
C14_SimpleGrouping ==
  (SimpleDone /\ TitlesUnique(all(repos))) =>
    result.items = NonEmptyEntries(ClaimListing(call.repo_types))

C14_Witness ==
  /\ SimpleDone /\ TitlesUnique(all(repos))
  /\ call.repo_types.t = "none"
  /\ Len(all(repos)) = 2
  /\ Len(result.items) = 2
  /\ result.items[1].k = repos.core_repo.title

\* --------------------------------------------------------------- claim C15
\* the sorted list discovery offers the call for a repository and content type
DiscoveredFor(repo, content_type) == Sorted(Discoverable(fs, CallDir(repo, content_type)))

\* the list after the quickstart extraction as the specification states it:
\* for tutorials the first file with a quickstart name is taken out, every
\* other content type keeps its list
AfterExtraction(repo, content_type) ==
  LET discovered == DiscoveredFor(repo, content_type)
      matches == {k \in 1..Len(discovered) : IsQuickstartName(LastComponent(discovered[k]))}
  IN IF content_type = "tutorials" /\ matches # {}
     THEN LET first == CHOOSE k \in matches : \A m \in matches : k <= m
          IN SubSeq(discovered, 1, first - 1) \o SubSeq(discovered, first + 1, Len(discovered))
     ELSE discovered

\* the entry of a repository in the result, empty when its title is no key
EntryOf(repo) == IF HasKey(result, repo.title) THEN Get(result, repo.title) ELSE EmptyDict

\* C15: in content-type-expanding repo_grouping, within the entry of a
\* selected repository (of a title no other selected repository carries) the
\* label of a requested content type is a key if and only if that content
\* type's list is non-empty after quickstart extraction, no label maps to an
\* empty list, and "Quickstart" precedes "Tutorials" when both are keys.
C15_ContentTypeLabels ==
  ExpandedDone =>
    \A i \in 1..Len(CallRepos) :
      TitleUniqueAt(CallRepos, i) =>
        LET entry == EntryOf(CallRepos[i]) IN
        /\ \A j \in 1..Len(CallContent) :
             /\ HasKey(entry, DISPLAY_NAMES[CallContent[j]])
                  <=> AfterExtraction(CallRepos[i], CallContent[j]) # <<>>
             /\ HasKey(entry, DISPLAY_NAMES[CallContent[j]])
                  => ListUnder(entry, DISPLAY_NAMES[CallContent[j]]) # <<>>
        /\ (HasKey(entry, "Quickstart") /\ HasKey(entry, "Tutorials"))
             => KeyIndex(entry, "Quickstart") < KeyIndex(entry, "Tutorials")

\* --------------------------------------------------------------- claim C16
\* how often a file occurs in the entry of a repository for a content type:
\* in the list under the content type's label, or as the "Quickstart" value
Occurrences(entry, content_type, file) ==
  LET listed == ListUnder(entry, DISPLAY_NAMES[content_type])
  IN Cardinality({k \in 1..Len(listed) : listed[k] = file})
       + (IF HasKey(entry, "Quickstart") /\ Get(entry, "Quickstart") = Str(file) THEN 1 ELSE 0)

\* C16: in content-type-expanding repo_grouping, for every selected
\* repository (of a title no other selected repository carries) and every
\* requested content type, each discovered file occurs exactly once in the
\* repository's entry, under the content type's label or as the "Quickstart"
\* value; for guides and learn the list under the label is the discovered
\* list.
C16_FileConservation ==
  ExpandedDone =>
    \A i \in 1..Len(CallRepos) :
      TitleUniqueAt(CallRepos, i) =>
        \A j \in 1..Len(CallContent) :
          LET entry == EntryOf(CallRepos[i])
              discovered == DiscoveredFor(CallRepos[i], CallContent[j])
          IN /\ \A k \in 1..Len(discovered) :
                  Occurrences(entry, CallContent[j], discovered[k]) = 1
             /\ CallContent[j] # "tutorials"
                  => ListUnder(entry, DISPLAY_NAMES[CallContent[j]]) = discovered

====
